---- MODULE Spec2Model ----
(***************************************************************************)
(* AudioSub Master: the App component's state machine (file selection,     *)
(* processAudio attempts, remove / retry), the transcription client        *)
(* transcribeAudio and the file reader blobToBase64; and the pure helpers   *)
(* formatTime, generateSRT and the download name of handleDownloadSRT,     *)
(* which are applied to drawn inputs under SpecHelpers.                    *)
(*                                                                         *)
(* Browser scheduling: user events, FileReader events and the settlement   *)
(* of the network call are separate tasks and interleave freely.  The      *)
(* code that runs between two awaits of one async function runs            *)
(* atomically.  A continuation that is only a microtask away (the await of *)
(* an already rejected promise) runs before any other task: while one is   *)
(* pending no other action is enabled.                                     *)
(***************************************************************************)
EXTENDS Integers, Sequences, FiniteSets, TLC

\* ------------------------------------------------------------------ bounds
\* processAudio invocations in one behaviour
MaxStarts == 2
\* object URLs created (accepted selections) in one behaviour
MaxUrls == 2
\* formatTime is applied to offsets of up to MaxHours hours
MaxHours == 25
\* generateSRT is applied to sequences of up to MaxSegs segments
MaxSegs == 2

\* ------------------------------------------------------------- input files
\* const MAX_FILE_SIZE = 15 * 1024 * 1024
MAX_FILE_SIZE == 15 * 1024 * 1024

\* file === null / audioUrl === null
NoFile == 0
NoUrl == 0

\* The File objects the user can offer.  A declared type is a sequence of
\* characters so that startsWith is computed, not assumed.
AudioMp3 == <<"a","u","d","i","o","/","m","p","3">>
VideoMp4 == <<"v","i","d","e","o","/","m","p","4">>
TextPlain == <<"t","e","x","t","/","p","l","a","i","n">>
AudioNoSlash == <<"a","u","d","i","o">>

Files == 1..6

FileType(f) ==
  CASE f = 1 -> AudioMp3
    [] f = 2 -> VideoMp4
    [] f = 3 -> TextPlain
    [] f = 4 -> AudioMp3
    [] f = 5 -> AudioNoSlash
    [] f = 6 -> << >>

FileSize(f) ==
  CASE f = 1 -> MAX_FILE_SIZE
    [] f = 2 -> 1024
    [] f = 3 -> 1024
    [] f = 4 -> MAX_FILE_SIZE + 1
    [] f = 5 -> 0
    [] f = 6 -> MAX_FILE_SIZE + 1

\* String.prototype.startsWith
startsWith(s, p) == Len(s) >= Len(p) /\ SubSeq(s, 1, Len(p)) = p

PrefixAudio == <<"a","u","d","i","o","/">>
PrefixVideo == <<"v","i","d","e","o","/">>

\* selectedFile.type.startsWith('audio/') || selectedFile.type.startsWith('video/')
IsMediaType(f) ==
  startsWith(FileType(f), PrefixAudio) \/ startsWith(FileType(f), PrefixVideo)

TooLarge_GE(f) == FileSize(f) >= MAX_FILE_SIZE
\* selectedFile.size > MAX_FILE_SIZE
TooLarge(f) == FileSize(f) > MAX_FILE_SIZE

\* --------------------------------------------------------------- messages
NoMessage == ""
MsgPreparing == "preparing audio"
MsgListening == "Gemini is listening and translating"
MsgNoKey == "missing API key, check the environment configuration"
MsgNoResponse == "Gemini did not respond"
MsgFallback == "an unexpected error occurred"
MsgNetwork == "fetch failed"
MsgSyntax == "SyntaxError: unexpected token in JSON"
MsgNotFunction == "TypeError: parsed.map is not a function"
MsgNullItem == "TypeError: cannot read properties of null"

AlertNone == "none"
AlertTooLarge == "file too large, upload audio under 15MB"
AlertBadType == "drop a valid audio or video file"

\* ------------------------------------------------------------ JSON values
\* A JSON value as the mapping code sees it: tag, number, string.
JUndef == [t |-> "undefined", n |-> 0, s |-> ""]
JNull == [t |-> "null", n |-> 0, s |-> ""]
JInt(i) == [t |-> "integer", n |-> i, s |-> ""]
JStr(x) == [t |-> "string", n |-> 0, s |-> x]

\* An element of the parsed array: an object with the properties it has
\* (a missing property reads as undefined), or null.
Obj(id, st, en, o, tr) ==
  [k |-> "object", id |-> id, startMs |-> st, endMs |-> en,
   original |-> o, translation |-> tr]
NullItem ==
  [k |-> "null", id |-> JUndef, startMs |-> JUndef, endMs |-> JUndef,
   original |-> JUndef, translation |-> JUndef]

ItemA == Obj(JUndef, JInt(1000), JInt(2500), JStr("Bye"), JStr("zaijian"))
ItemB == Obj(JInt(7), JInt(0), JInt(1000), JStr("Hi"), JStr("hai"))
ItemNoStart == Obj(JUndef, JUndef, JInt(1000), JStr("Hi"), JStr("hai"))
ItemWrongType == Obj(JUndef, JStr("0"), JInt(1000), JInt(5), JStr("hai"))

\* ------------------------------------------- outcomes of generateContent
\* What the awaited ai.models.generateContent call can settle to: a
\* rejection carrying an error message (possibly none), or a response whose
\* text is absent, empty, not JSON, or JSON of some value.
Responses == 1..11

Rejected(msg) == [settle |-> "rejected", msg |-> msg, text |-> "absent", arr |-> FALSE, items |-> << >>]
Text(kind, isArr, items) == [settle |-> "resolved", msg |-> NoMessage, text |-> kind, arr |-> isArr, items |-> items]

Response(r) ==
  CASE r = 1 -> Rejected(MsgNetwork)
    [] r = 2 -> Rejected(NoMessage)
    [] r = 3 -> Text("absent", FALSE, << >>)
    [] r = 4 -> Text("empty", FALSE, << >>)
    [] r = 5 -> Text("notjson", FALSE, << >>)
    [] r = 6 -> Text("json", FALSE, << >>)
    [] r = 7 -> Text("json", TRUE, << >>)
    [] r = 8 -> Text("json", TRUE, <<ItemA, ItemB>>)
    [] r = 9 -> Text("json", TRUE, <<ItemNoStart>>)
    [] r = 10 -> Text("json", TRUE, <<ItemB, NullItem>>)
    [] r = 11 -> Text("json", TRUE, <<ItemB, ItemWrongType>>)

\* ------------------------------------------------------- transcribeAudio
\* if (!apiKey) throw ...
KeyMissing_Never(key) == FALSE
KeyMissing(key) == key = ""

MapItem_KeepRawId(item, index) ==
  [id |-> IF item.id.t = "integer" THEN item.id.n ELSE index + 1,
   startMs |-> item.startMs, endMs |-> item.endMs,
   original |-> item.original, translation |-> item.translation]
\* (item, index) => ({ id: index + 1, startMs: item.startMs, ... })
MapItem(item, index) ==
  [id |-> index + 1, startMs |-> item.startMs, endMs |-> item.endMs,
   original |-> item.original, translation |-> item.translation]

\* parsed.map(...): reading a property of a null element throws
MapParsed(items) == [i \in 1..Len(items) |-> MapItem(items[i], i - 1)]

Thrown(msg) == [ok |-> FALSE, msg |-> msg, segs |-> << >>]
Returned(segs) == [ok |-> TRUE, msg |-> NoMessage, segs |-> segs]

transcribeAudio_Partial(r) ==
  LET resp == Response(r) IN
  IF resp.settle = "rejected" THEN Thrown(resp.msg)
  ELSE IF resp.text \in {"absent", "empty"} THEN Thrown(MsgNoResponse)
  ELSE IF resp.text = "notjson" THEN Thrown(MsgSyntax)
  ELSE IF ~resp.arr THEN Thrown(MsgNotFunction)
  ELSE IF \E i \in 1..Len(resp.items) : resp.items[i].k = "null"
       THEN LET k == CHOOSE i \in 1..Len(resp.items) :
                       /\ resp.items[i].k = "null"
                       /\ \A j \in 1..(i - 1) : resp.items[j].k # "null"
            IN Returned(MapParsed(SubSeq(resp.items, 1, k - 1)))
  ELSE Returned(MapParsed(resp.items))
\* The body of transcribeAudio from the settlement of generateContent on:
\* the value it returns or the error it (re)throws.
transcribeAudio(r) ==
  LET resp == Response(r) IN
  IF resp.settle = "rejected" THEN Thrown(resp.msg)
  ELSE IF resp.text \in {"absent", "empty"} THEN Thrown(MsgNoResponse)
  ELSE IF resp.text = "notjson" THEN Thrown(MsgSyntax)
  ELSE IF ~resp.arr THEN Thrown(MsgNotFunction)
  ELSE IF \E i \in 1..Len(resp.items) : resp.items[i].k = "null"
       THEN Thrown(MsgNullItem)
  ELSE Returned(MapParsed(resp.items))

ErrorMessage_NoFallback(msg) == msg
\* error.message || "..."
ErrorMessage(msg) == IF msg = NoMessage THEN MsgFallback ELSE msg

\* ------------------------------------------------------------------ state
VARIABLES
  file,        \* useState<File | null>
  audioUrl,    \* useState<string | null>: the object URL handed to <audio>
  status,      \* processingState.status
  message,     \* processingState.message ("" when absent)
  segments,    \* useState<SubtitleSegment[]>
  segFile,     \* history: the file whose transcription produced segments
  attempts,    \* processAudio invocations suspended at an await
  started,     \* number of processAudio invocations so far
  netCalls,    \* number of generateContent calls issued so far
  urlCount,    \* number of object URLs created so far
  live,        \* object URLs created and not revoked
  alert,       \* the alert() raised by the last event, if any
  lastOp,      \* history: the last event handled
  apiKey,      \* process.env.API_KEY || ''
  mounted,     \* the App component is mounted
  hFn,         \* helpers: the helper applied ("none" in the App's behaviours)
  hMs,         \* helpers: the argument of formatTime
  hSegs,       \* helpers: the argument of generateSRT
  hName,       \* helpers: file?.name of handleDownloadSRT
  hOut,        \* helpers: the string returned
  hDone        \* helpers: the helper has returned

vars == <<file, audioUrl, status, message, segments, segFile, attempts,
          started, netCalls, urlCount, live, alert, lastOp, apiKey, mounted>>

hvars == <<hFn, hMs, hSegs, hName, hOut, hDone>>

\* No helper call is being followed.
HelpersIdle ==
  /\ hFn = "none"
  /\ hMs = 0
  /\ hSegs = << >>
  /\ hName = << >>
  /\ hOut = << >>
  /\ hDone = FALSE

Statuses == {"idle", "uploading", "analyzing", "completed", "error"}

Op(op, f, a, r) == [op |-> op, f |-> f, a |-> a, r |-> r]

\* A continuation one microtask away is pending.
Busy == \E a \in DOMAIN attempts : attempts[a].phase = "keyfail"

Init ==
  /\ file = NoFile
  /\ audioUrl = NoUrl
  /\ status = "idle"
  /\ message = NoMessage
  /\ segments = << >>
  /\ segFile = NoFile
  /\ attempts = << >>
  /\ started = 0
  /\ netCalls = 0
  /\ urlCount = 0
  /\ live = {}
  /\ alert = AlertNone
  /\ lastOp = Op("init", NoFile, 0, 0)
  /\ apiKey \in {"", "key"}
  /\ mounted = TRUE
  /\ HelpersIdle

\* ---------------------------------------------------------- file selection
Reject_ResetFirst(msg) ==
  /\ alert' = msg
  /\ segments' = << >>
  /\ segFile' = NoFile
  /\ status' = "idle"
  /\ message' = NoMessage
  /\ UNCHANGED <<file, audioUrl, attempts, started, netCalls, urlCount, live, apiKey>>
\* alert(...); return
Reject(msg) ==
  /\ alert' = msg
  /\ UNCHANGED <<file, audioUrl, status, message, segments, segFile, attempts,
                 started, netCalls, urlCount, live, apiKey>>

Select_NoRevoke(f) ==
  /\ file' = f
  /\ urlCount' = urlCount + 1
  /\ audioUrl' = urlCount + 1
  /\ live' = live \cup {urlCount + 1}
  /\ segments' = << >>
  /\ segFile' = NoFile
  /\ status' = "idle"
  /\ message' = NoMessage
  /\ alert' = AlertNone
  /\ UNCHANGED <<attempts, started, netCalls, apiKey>>
Select_KeepSegments(f) ==
  /\ file' = f
  /\ urlCount' = urlCount + 1
  /\ audioUrl' = urlCount + 1
  /\ live' = (live \ {audioUrl}) \cup {urlCount + 1}
  /\ status' = "idle"
  /\ message' = NoMessage
  /\ alert' = AlertNone
  /\ UNCHANGED <<segments, segFile, attempts, started, netCalls, apiKey>>
\* setFile; setAudioUrl(URL.createObjectURL(..)); setSegments([]);
\* setProcessingState({status: 'idle'}); the effect cleanup of the previous
\* audioUrl revokes it when the new one is committed.
Select(f) ==
  /\ file' = f
  /\ urlCount' = urlCount + 1
  /\ audioUrl' = urlCount + 1
  /\ live' = (live \ {audioUrl}) \cup {urlCount + 1}
  /\ segments' = << >>
  /\ segFile' = NoFile
  /\ status' = "idle"
  /\ message' = NoMessage
  /\ alert' = AlertNone
  /\ UNCHANGED <<attempts, started, netCalls, apiKey>>

\* onChange of the hidden input; the button that opens the picker is
\* rendered only while no file is selected.
handleFileChange(f) ==
  /\ mounted
  /\ ~Busy
  /\ file = NoFile
  /\ ~TooLarge(f) => urlCount < MaxUrls
  /\ lastOp' = Op("pick", f, 0, 0)
  /\ IF TooLarge(f) THEN Reject(AlertTooLarge) ELSE Select(f)
  /\ UNCHANGED <<mounted, hvars>>

\* onDrop of the upload area, which stays mounted (overlays included) in
\* every status.
handleDrop(f) ==
  /\ mounted
  /\ ~Busy
  /\ (IsMediaType(f) /\ ~TooLarge(f)) => urlCount < MaxUrls
  /\ lastOp' = Op("drop", f, 0, 0)
  /\ IF IsMediaType(f)
     THEN IF TooLarge(f) THEN Reject(AlertTooLarge) ELSE Select(f)
     ELSE Reject(AlertBadType)
  /\ UNCHANGED <<mounted, hvars>>

RemoveClick_OnlyWhenIdle ==
  /\ mounted
  /\ ~Busy
  /\ file # NoFile
  /\ status = "idle"
  /\ file' = NoFile
  /\ segments' = << >>
  /\ segFile' = NoFile
  /\ status' = "idle"
  /\ message' = NoMessage
  /\ alert' = AlertNone
  /\ lastOp' = Op("remove", file, 0, 0)
  /\ UNCHANGED <<audioUrl, attempts, started, netCalls, urlCount, live, apiKey>>
  /\ UNCHANGED <<mounted, hvars>>
\* onClick of the remove button, rendered while a file is selected.
RemoveClick ==
  /\ mounted
  /\ ~Busy
  /\ file # NoFile
  /\ file' = NoFile
  /\ segments' = << >>
  /\ segFile' = NoFile
  /\ status' = "idle"
  /\ message' = NoMessage
  /\ alert' = AlertNone
  /\ lastOp' = Op("remove", file, 0, 0)
  /\ UNCHANGED <<audioUrl, attempts, started, netCalls, urlCount, live, apiKey>>
  /\ UNCHANGED <<mounted, hvars>>

RetryClick_Restart ==
  /\ mounted
  /\ ~Busy
  /\ status = "error"
  /\ file # NoFile
  /\ started < MaxStarts
  /\ started' = started + 1
  /\ status' = "uploading"
  /\ message' = MsgPreparing
  /\ attempts' = [b \in DOMAIN attempts \cup {started + 1} |->
                    IF b = started + 1 THEN [file |-> file, phase |-> "reading"]
                    ELSE attempts[b]]
  /\ alert' = AlertNone
  /\ lastOp' = Op("retry", file, 0, 0)
  /\ UNCHANGED <<file, audioUrl, segments, segFile, netCalls, urlCount, live, apiKey>>
  /\ UNCHANGED <<mounted, hvars>>
\* onClick of the retry button of the error overlay.
RetryClick ==
  /\ mounted
  /\ ~Busy
  /\ status = "error"
  /\ status' = "idle"
  /\ message' = NoMessage
  /\ alert' = AlertNone
  /\ lastOp' = Op("retry", file, 0, 0)
  /\ UNCHANGED <<file, audioUrl, segments, segFile, attempts, started, netCalls,
                 urlCount, live, apiKey>>
  /\ UNCHANGED <<mounted, hvars>>

\* ------------------------------------------------------------ processAudio
Without(a) == [b \in DOMAIN attempts \ {a} |-> attempts[b]]

\* onClick of the start button (rendered while a file is selected and the
\* status is idle): processAudio up to `await blobToBase64(file)`.
processAudio ==
  /\ mounted
  /\ ~Busy
  /\ file # NoFile
  /\ status = "idle"
  /\ started < MaxStarts
  /\ started' = started + 1
  /\ status' = "uploading"
  /\ message' = MsgPreparing
  /\ attempts' = [b \in DOMAIN attempts \cup {started + 1} |->
                    IF b = started + 1 THEN [file |-> file, phase |-> "reading"]
                    ELSE attempts[b]]
  /\ alert' = AlertNone
  /\ lastOp' = Op("start", file, started + 1, 0)
  /\ UNCHANGED <<file, audioUrl, segments, segFile, netCalls, urlCount, live, apiKey>>
  /\ UNCHANGED <<mounted, hvars>>

\* blobToBase64 resolves: processAudio from there to `await transcribeAudio`.
\* transcribeAudio runs to its first await: with no key it throws before any
\* network activity, otherwise it issues the generateContent call.
ReadResolved(a) ==
  /\ mounted
  /\ ~Busy
  /\ a \in DOMAIN attempts
  /\ attempts[a].phase = "reading"
  /\ status' = "analyzing"
  /\ message' = MsgListening
  /\ IF KeyMissing(apiKey)
     THEN /\ attempts' = [attempts EXCEPT ![a].phase = "keyfail"]
          /\ netCalls' = netCalls
     ELSE /\ attempts' = [attempts EXCEPT ![a].phase = "calling"]
          /\ netCalls' = netCalls + 1
  /\ alert' = AlertNone
  /\ lastOp' = Op("read", attempts[a].file, a, 0)
  /\ UNCHANGED <<file, audioUrl, segments, segFile, started, urlCount, live, apiKey>>
  /\ UNCHANGED <<mounted, hvars>>

ReadFailed_Swallowed(a) ==
  /\ mounted
  /\ ~Busy
  /\ a \in DOMAIN attempts
  /\ attempts[a].phase = "reading"
  /\ attempts' = Without(a)
  /\ alert' = AlertNone
  /\ lastOp' = Op("readfail", attempts[a].file, a, 0)
  /\ UNCHANGED <<file, audioUrl, status, message, segments, segFile, started,
                 netCalls, urlCount, live, apiKey>>
  /\ UNCHANGED <<mounted, hvars>>
\* blobToBase64 rejects (reader.onerror = reject: the rejection value is the
\* event, which has no message): the catch block of processAudio.
ReadFailed(a) ==
  /\ mounted
  /\ ~Busy
  /\ a \in DOMAIN attempts
  /\ attempts[a].phase = "reading"
  /\ status' = "error"
  /\ message' = ErrorMessage(NoMessage)
  /\ attempts' = Without(a)
  /\ alert' = AlertNone
  /\ lastOp' = Op("readfail", attempts[a].file, a, 0)
  /\ UNCHANGED <<file, audioUrl, segments, segFile, started, netCalls, urlCount,
                 live, apiKey>>
  /\ UNCHANGED <<mounted, hvars>>

\* The await of the promise transcribeAudio rejected for the missing key:
\* the catch block of processAudio.
KeyFailed(a) ==
  /\ mounted
  /\ a \in DOMAIN attempts
  /\ attempts[a].phase = "keyfail"
  /\ status' = "error"
  /\ message' = ErrorMessage(MsgNoKey)
  /\ attempts' = Without(a)
  /\ alert' = AlertNone
  /\ lastOp' = Op("keyfail", attempts[a].file, a, 0)
  /\ UNCHANGED <<file, audioUrl, segments, segFile, started, netCalls, urlCount,
                 live, apiKey>>
  /\ UNCHANGED <<mounted, hvars>>

\* generateContent settles with r: the rest of transcribeAudio, then the
\* rest of processAudio (setSegments, completed) or its catch block.
CallSettled(a, r) ==
  /\ mounted
  /\ ~Busy
  /\ a \in DOMAIN attempts
  /\ attempts[a].phase = "calling"
  /\ LET out == transcribeAudio(r) IN
     IF out.ok
     THEN /\ segments' = out.segs
          /\ segFile' = attempts[a].file
          /\ status' = "completed"
          /\ message' = NoMessage
     ELSE /\ status' = "error"
          /\ message' = ErrorMessage(out.msg)
          /\ UNCHANGED <<segments, segFile>>
  /\ attempts' = Without(a)
  /\ alert' = AlertNone
  /\ lastOp' = Op("settle", attempts[a].file, a, r)
  /\ UNCHANGED <<file, audioUrl, started, netCalls, urlCount, live, apiKey>>
  /\ UNCHANGED <<mounted, hvars>>

\* The component is torn down: the effect cleanup revokes the current
\* audioUrl; the state setters of a torn-down component do nothing.
Unmount ==
  /\ mounted
  /\ ~Busy
  /\ mounted' = FALSE
  /\ live' = live \ {audioUrl}
  /\ alert' = AlertNone
  /\ lastOp' = Op("unmount", file, 0, 0)
  /\ UNCHANGED <<file, audioUrl, status, message, segments, segFile, attempts,
                 started, netCalls, urlCount, apiKey>>
  /\ UNCHANGED hvars

Next ==
  \/ \E f \in Files : handleFileChange(f)
  \/ \E f \in Files : handleDrop(f)
  \/ RemoveClick
  \/ RetryClick
  \/ processAudio
  \/ \E a \in 1..MaxStarts : ReadResolved(a)
  \/ \E a \in 1..MaxStarts : ReadFailed(a)
  \/ \E a \in 1..MaxStarts : KeyFailed(a)
  \/ \E a \in 1..MaxStarts, r \in Responses : CallSettled(a, r)
  \/ Unmount

Spec == Init /\ [][Next]_<<vars, hvars>>

\* A pending FileReader event, promise continuation or network settlement
\* is a task of the event loop: the file read and the remote call are
\* taken to settle, and a settled one is eventually run.
Settle ==
  \E a \in 1..MaxStarts :
    \/ ReadResolved(a)
    \/ ReadFailed(a)
    \/ KeyFailed(a)
    \/ \E r \in Responses : CallSettled(a, r)

SpecFair == Init /\ [][Next]_<<vars, hvars>> /\ WF_<<vars, hvars>>(Settle)

TypeOK ==
  /\ file \in Files \cup {NoFile}
  /\ status \in Statuses
  /\ started \in 0..MaxStarts
  /\ netCalls \in 0..MaxStarts
  /\ urlCount \in 0..MaxUrls
  /\ DOMAIN attempts \subseteq 1..MaxStarts

\* ================================================================ helpers
\* Strings are sequences of characters.
NL == "\n"
DigitChars == <<"0", "1", "2", "3", "4", "5", "6", "7", "8", "9">>

\* Number.prototype.toString of an integer >= 0
RECURSIVE toString(_)
toString(n) ==
  IF n < 10 THEN <<DigitChars[n + 1]>>
  ELSE toString(n \div 10) \o <<DigitChars[(n % 10) + 1]>>

\* String.prototype.padStart
RECURSIVE padStart(_, _, _)
padStart(str, n, c) == IF Len(str) >= n THEN str ELSE padStart(<<c>> \o str, n, c)

\* new Date(ms).getUTCHours() and the like, for 0 <= ms: the time of day of
\* the instant ms milliseconds after the epoch.
getUTCHours(ms) == (ms \div 3600000) % 24
getUTCMinutes(ms) == (ms \div 60000) % 60
getUTCSeconds(ms) == (ms \div 1000) % 60
getUTCMilliseconds(ms) == ms % 1000

formatTime(ms) ==
  padStart(toString(getUTCHours(ms)), 2, "0") \o <<":">>
    \o padStart(toString(getUTCMinutes(ms)), 2, "0") \o <<":">>
    \o padStart(toString(getUTCSeconds(ms)), 2, "0") \o <<",">>
    \o padStart(toString(getUTCMilliseconds(ms)), 3, "0")

Arrow == <<" ", "-", "-", ">", " ">>

Block_UseSegId(seg, index) ==
  toString(seg.id) \o <<NL>>
    \o formatTime(seg.startMs) \o Arrow \o formatTime(seg.endMs) \o <<NL>>
    \o seg.original \o <<NL>>
    \o seg.translation \o <<NL>>
\* the template literal of generateSRT's map callback
Block(seg, index) ==
  toString(index + 1) \o <<NL>>
    \o formatTime(seg.startMs) \o Arrow \o formatTime(seg.endMs) \o <<NL>>
    \o seg.original \o <<NL>>
    \o seg.translation \o <<NL>>

BlockSeparator_BlankLine == <<NL, NL>>
\* .join('\n')
BlockSeparator == <<NL>>

\* Array.prototype.join
RECURSIVE join(_, _)
join(strs, sep) ==
  IF Len(strs) = 0 THEN << >>
  ELSE IF Len(strs) = 1 THEN strs[1]
  ELSE strs[1] \o sep \o join(Tail(strs), sep)

generateSRT(segs) ==
  join([i \in 1..Len(segs) |-> Block(segs[i], i - 1)], BlockSeparator)

\* String.prototype.split on a one-character separator
RECURSIVE split(_, _)
split(str, c) ==
  IF \A i \in 1..Len(str) : str[i] # c THEN <<str>>
  ELSE LET k == CHOOSE i \in 1..Len(str) :
                  str[i] = c /\ \A j \in 1..(i - 1) : str[j] # c
       IN <<SubSeq(str, 1, k - 1)>> \o split(SubSeq(str, k + 1, Len(str)), c)

\* file?.name when file is null
NoName == <<"undefined">>
Subtitle == <<"s", "u", "b", "t", "i", "t", "l", "e">>
DotSrt == <<".", "s", "r", "t">>

\* a.download = `${file?.name.split('.')[0] || 'subtitle'}.srt`
DownloadName(name) ==
  LET stem == IF name = NoName THEN << >> ELSE split(name, ".")[1]
  IN (IF stem = << >> THEN Subtitle ELSE stem) \o DotSrt

\* ---------------------------------------------------------- helper inputs
MsInputs ==
  {0, 999, 1000, 59999, 60000, 3599999, 3600000, 3661005, 86399999}
    \cup {h * 3600000 + 61005 : h \in 0..MaxHours}

Seg(id, st, en, o, tr) ==
  [id |-> id, startMs |-> st, endMs |-> en, original |-> o, translation |-> tr]
SegPool ==
  {Seg(1, 0, 1000, <<"H", "i">>, <<"h", "a", "i">>),
   Seg(7, 1000, 2500, <<"B", "y", "e">>, << >>),
   Seg(2, 3661005, 59999, <<"1">>, <<"o", "k">>),
   Seg(1, 86399999, 86400000, <<"l", "a", "t", "e">>, <<"w", "a", "n">>)}
SegInputs == UNION {[1..n -> SegPool] : n \in 0..MaxSegs}

NameInputs ==
  {NoName, << >>,
   <<"t", "a", "l", "k", ".", "m", "p", "3">>,
   <<"m", "y", ".", "t", "a", "l", "k", ".", "m", "p", "3">>,
   <<"n", "o", "e", "x", "t">>,
   <<".", "e", "n", "v">>,
   <<"a", ".">>}

\* The App at rest, while a helper call is followed.
AppIdle ==
  /\ file = NoFile
  /\ audioUrl = NoUrl
  /\ status = "idle"
  /\ message = NoMessage
  /\ segments = << >>
  /\ segFile = NoFile
  /\ attempts = << >>
  /\ started = 0
  /\ netCalls = 0
  /\ urlCount = 0
  /\ live = {}
  /\ alert = AlertNone
  /\ lastOp = Op("init", NoFile, 0, 0)
  /\ apiKey = "key"
  /\ mounted = TRUE

HInit ==
  /\ AppIdle
  /\ hOut = << >>
  /\ hDone = FALSE
  /\ \/ hFn = "formatTime" /\ hMs \in MsInputs /\ hSegs = << >> /\ hName = << >>
     \/ hFn = "generateSRT" /\ hMs = 0 /\ hSegs \in SegInputs /\ hName = << >>
     \/ hFn = "download" /\ hMs = 0 /\ hSegs = << >> /\ hName \in NameInputs

CallFormatTime ==
  /\ hFn = "formatTime"
  /\ ~hDone
  /\ hOut' = formatTime(hMs)
  /\ hDone' = TRUE
  /\ UNCHANGED <<hFn, hMs, hSegs, hName>>
  /\ UNCHANGED vars

CallGenerateSRT ==
  /\ hFn = "generateSRT"
  /\ ~hDone
  /\ hOut' = generateSRT(hSegs)
  /\ hDone' = TRUE
  /\ UNCHANGED <<hFn, hMs, hSegs, hName>>
  /\ UNCHANGED vars

CallDownloadName ==
  /\ hFn = "download"
  /\ ~hDone
  /\ hOut' = DownloadName(hName)
  /\ hDone' = TRUE
  /\ UNCHANGED <<hFn, hMs, hSegs, hName>>
  /\ UNCHANGED vars

HNext == CallFormatTime \/ CallGenerateSRT \/ CallDownloadName

SpecHelpers == HInit /\ [][HNext]_<<vars, hvars>>

\* ================================================================ claims
InFlight == DOMAIN attempts
UserOps == {"pick", "drop", "remove", "retry"}

\* C1: in every reachable state the segment sequence is non-empty only if
\* the processing status is 'completed'.
C1_SegmentsOnlyWhenCompleted == Len(segments) > 0 => status = "completed"

\* C2 (the whole list): every change of the status is idle->uploading, uploading->analyzing,
\* analyzing->completed, analyzing->error, or a reset to idle made by an
\* explicit user action (selection, remove, retry).
C2_LinearTransitions ==
  [][status' # status =>
       \/ status = "idle" /\ status' = "uploading"
       \/ status = "uploading" /\ status' = "analyzing"
       \/ status = "analyzing" /\ status' \in {"completed", "error"}
       \/ status' = "idle" /\ lastOp'.op \in UserOps]_vars

\* C2 (its "in particular" clause): the status never becomes 'analyzing'
\* from a status other than 'uploading', and never becomes 'completed' or
\* 'error' from 'idle'.
C2_NoSkippedStep ==
  [][/\ (status' = "analyzing" /\ status # "analyzing") => status = "uploading"
     /\ status = "idle" => status' \notin {"completed", "error"}]_vars

\* C3: at most one processAudio attempt is in flight at any moment, and a
\* start is never issued while the status is 'uploading' or 'analyzing'.
C3_OneAttemptInFlight ==
  [][/\ lastOp'.op = "start" /\ started' # started
          => status \notin {"uploading", "analyzing"}
     /\ Cardinality(DOMAIN attempts') <= 1]_vars

\* C4: a non-empty segment sequence was produced by a transcription of the
\* file that is currently selected.
C4_SegmentsOfSelectedFile == Len(segments) > 0 => segFile = file

\* C5: a dropped file is accepted iff its type begins with 'audio/' or
\* 'video/' and its size is at most 15*1024*1024; a picked file is accepted
\* iff its size is at most 15*1024*1024, whatever its type.
Accepted == alert = AlertNone /\ file = lastOp.f /\ audioUrl = urlCount
C5_Acceptance ==
  /\ lastOp.op = "drop" =>
       (Accepted <=>
          /\ \/ startsWith(FileType(lastOp.f), <<"a","u","d","i","o","/">>)
             \/ startsWith(FileType(lastOp.f), <<"v","i","d","e","o","/">>)
          /\ FileSize(lastOp.f) <= 15 * 1024 * 1024)
  /\ lastOp.op = "pick" =>
       (Accepted <=> FileSize(lastOp.f) <= 15 * 1024 * 1024)
\* a drop of a file of exactly 15*1024*1024 bytes was accepted
C5_Witness ==
  /\ lastOp.op = "drop"
  /\ FileSize(lastOp.f) = 15 * 1024 * 1024
  /\ Accepted

\* C6: rejecting an oversized or wrong-type file changes no state: file,
\* playback URL, segments and status are unchanged, the status does not
\* move to 'uploading' and no transcription call is issued.
Offered(op, f) == lastOp'.op = op /\ lastOp'.f = f
C6_RejectionChangesNothing ==
  [][\A f \in Files :
       \/ Offered("drop", f) /\ (~IsMediaType(f) \/ FileSize(f) > MAX_FILE_SIZE)
       \/ Offered("pick", f) /\ FileSize(f) > MAX_FILE_SIZE
       => /\ UNCHANGED <<file, audioUrl, segments, status, message>>
          /\ UNCHANGED <<attempts, started, netCalls, live>>
          /\ alert' # AlertNone]_vars
\* an oversized drop was rejected while a completed transcript was shown
C6_Witness ==
  /\ lastOp.op = "drop"
  /\ FileSize(lastOp.f) > MAX_FILE_SIZE
  /\ alert = AlertTooLarge
  /\ status = "completed"
  /\ Len(segments) > 0

\* C7: with an empty API key transcribeAudio fails at once with the
\* configuration error and no network call is ever issued; the attempt ends
\* in status 'error' with that message and the segments unchanged.
C7_EmptyKeyFailsWithoutNetwork ==
  [][/\ apiKey = "" => netCalls' = 0
     /\ (apiKey = "" /\ lastOp'.op = "read" /\ started' = started
           /\ lastOp'.a \in InFlight /\ attempts[lastOp'.a].phase = "reading")
          => /\ lastOp'.a \in DOMAIN attempts'
             /\ attempts'[lastOp'.a].phase = "keyfail"
     /\ Busy => /\ status' = "error"
                /\ message' = MsgNoKey
                /\ segments' = segments
                /\ Cardinality(DOMAIN attempts') < Cardinality(InFlight)]_vars
\* an attempt ended in the configuration error without a network call
C7_Witness ==
  /\ lastOp.op = "keyfail"
  /\ apiKey = ""
  /\ status = "error"
  /\ message = MsgNoKey
  /\ netCalls = 0

\* C8: when the response's text is empty or absent the attempt ends in
\* status 'error' with the service error's message and the segment sequence
\* is left unchanged, and empty.
EmptyText(r) ==
  Response(r).settle = "resolved" /\ Response(r).text \in {"absent", "empty"}
C8_EmptyResponseLeavesNoSegments ==
  [][\A a \in InFlight, r \in Responses :
       (attempts[a].phase = "calling" /\ lastOp' = Op("settle", attempts[a].file, a, r)
          /\ EmptyText(r))
       => /\ status' = "error"
          /\ message' = MsgNoResponse
          /\ segments' = segments
          /\ segments' = << >>]_vars

\* C9: a response text that is not a JSON array of objects with integer
\* startMs, endMs and string original, translation makes the call fail; it
\* never yields 'completed' with segments whose fields are missing or of
\* the wrong type.
ItemMatchesSchema(item) ==
  /\ item.k = "object"
  /\ item.startMs.t = "integer"
  /\ item.endMs.t = "integer"
  /\ item.original.t = "string"
  /\ item.translation.t = "string"
MatchesSchema(r) ==
  /\ Response(r).settle = "resolved"
  /\ Response(r).text = "json"
  /\ Response(r).arr
  /\ \A i \in 1..Len(Response(r).items) : ItemMatchesSchema(Response(r).items[i])
WellTyped(seg) ==
  /\ seg.startMs.t = "integer"
  /\ seg.endMs.t = "integer"
  /\ seg.original.t = "string"
  /\ seg.translation.t = "string"
C9_SchemaEnforced ==
  /\ (lastOp.op = "settle" /\ Response(lastOp.r).settle = "resolved"
        /\ ~MatchesSchema(lastOp.r))
       => status = "error"
  /\ \A i \in 1..Len(segments) : WellTyped(segments[i])

\* C10: for a parsed array of length n transcribeAudio returns n segments
\* in the same order, the one at 0-based position i with id i+1 (a raw id
\* is ignored) and the other four fields copied from element i.
ParsedArray(r) ==
  Response(r).settle = "resolved" /\ Response(r).text = "json" /\ Response(r).arr
MappedInOrder(r) ==
  LET items == Response(r).items IN
  /\ status = "completed"
  /\ Len(segments) = Len(items)
  /\ \A i \in 1..Len(items) :
       /\ segments[i].id = i
       /\ segments[i].startMs = items[i].startMs
       /\ segments[i].endMs = items[i].endMs
       /\ segments[i].original = items[i].original
       /\ segments[i].translation = items[i].translation
C10_EveryArrayMapped ==
  (lastOp.op = "settle" /\ ParsedArray(lastOp.r)) => MappedInOrder(lastOp.r)
\* C10 (amended): the same, for a parsed array none of whose elements is
\* null.
NoNullElement(r) ==
  \A i \in 1..Len(Response(r).items) : Response(r).items[i].k # "null"
C10_NonNullArrayMapped ==
  (lastOp.op = "settle" /\ ParsedArray(lastOp.r) /\ NoNullElement(lastOp.r))
    => MappedInOrder(lastOp.r)
\* a two-element array, out of timestamp order and carrying a raw id, was
\* mapped in array order
C10_Witness ==
  /\ lastOp.op = "settle"
  /\ ParsedArray(lastOp.r)
  /\ Len(segments) = 2
  /\ segments[1].startMs.n > segments[2].startMs.n
  /\ Response(lastOp.r).items[2].id = JInt(7)
  /\ segments[2].id = 2

CallFails(r) ==
  ~(Response(r).settle = "resolved" /\ Response(r).text = "json" /\ Response(r).arr
      /\ \A i \in 1..Len(Response(r).items) : Response(r).items[i].k # "null")
UnderlyingMessage(r) ==
  IF Response(r).settle = "rejected" THEN Response(r).msg
  ELSE IF Response(r).text \in {"absent", "empty"} THEN "Gemini did not respond"
  ELSE IF Response(r).text = "notjson" THEN MsgSyntax
  ELSE IF ~Response(r).arr THEN MsgNotFunction
  ELSE MsgNullItem
Ended(a) == a \in InFlight /\ a \notin DOMAIN attempts' /\ lastOp'.a = a
C15_FailureSurfaces ==
  [][\A a \in InFlight :
       /\ (Ended(a) /\ attempts[a].phase = "reading")
            => status' = "error" /\ message' = "an unexpected error occurred"
       /\ (Ended(a) /\ attempts[a].phase = "keyfail")
            => status' = "error" /\ message' = MsgNoKey
       /\ (Ended(a) /\ attempts[a].phase = "calling" /\ CallFails(lastOp'.r))
            => /\ status' = "error"
               /\ message' # ""
               /\ message' = IF UnderlyingMessage(lastOp'.r) # ""
                             THEN UnderlyingMessage(lastOp'.r)
                             ELSE "an unexpected error occurred"]_vars
\* a remote failure that carries no message ended in 'error' with the
\* fallback message
C15_Witness ==
  /\ lastOp.op = "settle"
  /\ Response(lastOp.r).settle = "rejected"
  /\ Response(lastOp.r).msg = ""
  /\ status = "error"
  /\ message = MsgFallback

\* C16: in every state whose status is 'error' or 'completed' an explicit
\* user action that brings the status back to 'idle' is enabled: retry
\* after an error; remove (while a file is selected) or a new selection
\* after completion.
C16_PathBackToIdle ==
  mounted =>
    /\ status = "error" => ENABLED (RetryClick /\ status' = "idle")
    /\ (status = "completed" /\ file # NoFile)
         => ENABLED (RemoveClick /\ status' = "idle")
    /\ (status = "completed" /\ urlCount < MaxUrls)
         => ENABLED (\E f \in Files : handleDrop(f) /\ file' = f /\ status' = "idle")
    /\ (status = "completed" /\ urlCount < MaxUrls /\ file = NoFile)
         => ENABLED (\E f \in Files : handleFileChange(f) /\ file' = f /\ status' = "idle")
\* a completed transcript is shown for a selected file
C16_Witness ==
  /\ mounted
  /\ status = "completed"
  /\ file # NoFile
  /\ Len(segments) > 0
  /\ ENABLED (RemoveClick /\ status' = "idle")

\* C18: every playback URL is revoked once a new selection supersedes it or
\* the component is torn down: at most one is live, and none after teardown.
C18_UrlsRevoked ==
  /\ Cardinality(live) <= 1
  /\ live \subseteq {audioUrl}
  /\ ~mounted => live = {}
\* torn down after two accepted selections: both URLs are revoked
C18_Witness ==
  /\ ~mounted
  /\ urlCount = 2
  /\ audioUrl = 2
  /\ live = {}

\* C19: an accepted selection (picker or drop), in whatever status it is
\* made, sets the file, clears the segments and sets status 'idle' with no
\* message.
AcceptedOffer ==
  \/ lastOp.op = "drop" /\ IsMediaType(lastOp.f) /\ FileSize(lastOp.f) <= MAX_FILE_SIZE
  \/ lastOp.op = "pick" /\ FileSize(lastOp.f) <= MAX_FILE_SIZE
C19_SelectionResets ==
  AcceptedOffer =>
    /\ file = lastOp.f
    /\ segments = << >>
    /\ status = "idle"
    /\ message = NoMessage
\* a drop was accepted while a transcription call was pending
C19_Witness ==
  /\ lastOp.op = "drop"
  /\ file = lastOp.f
  /\ status = "idle"
  /\ \E a \in InFlight : attempts[a].phase = "calling"

\* C20: the segment sequence is empty or the complete mapped result of one
\* successful call; it changes only by being cleared or by being replaced
\* wholesale when a call resolves successfully.
CompleteResult(r) ==
  [i \in 1..Len(Response(r).items) |->
     [id |-> i,
      startMs |-> Response(r).items[i].startMs,
      endMs |-> Response(r).items[i].endMs,
      original |-> Response(r).items[i].original,
      translation |-> Response(r).items[i].translation]]
C20_AllOrNothing ==
  [][/\ \/ segments' = << >>
        \/ \E r \in Responses : ~CallFails(r) /\ segments' = CompleteResult(r)
     /\ segments' # segments =>
          \/ segments' = << >>
          \/ /\ lastOp'.op = "settle"
             /\ ~CallFails(lastOp'.r)
             /\ segments' = CompleteResult(lastOp'.r)
             /\ status' = "completed"]_vars
\* the result of a second call replaced the result of a first one
C20_Witness ==
  /\ lastOp.op = "settle"
  /\ started = 2
  /\ InFlight = {}
  /\ netCalls = 2
  /\ lastOp.a = 1
  /\ segments = CompleteResult(11)
  /\ segFile # file

\* C21: provided every file read and remote call settles, a status of
\* 'uploading' or 'analyzing' is eventually followed by 'completed' or
\* 'error' (as long as the component stays mounted): a busy status always
\* has an attempt pending behind it, and an attempt leaves only by settling.
BusyStatus == status \in {"uploading", "analyzing"}
C21_BusyEventuallySettles ==
  /\ [](BusyStatus => InFlight # {})
  /\ [][\A a \in InFlight :
          a \notin DOMAIN attempts'
            => /\ lastOp'.op \in {"readfail", "keyfail", "settle"}
               /\ lastOp'.a = a
               /\ status' \in {"completed", "error"}]_vars
  /\ (mounted /\ BusyStatus) ~> (status \in {"completed", "error"} \/ ~mounted)
\* an attempt whose file was replaced while it was pending still ran to
\* completion
C21_Witness ==
  /\ mounted
  /\ lastOp.op = "settle"
  /\ status = "completed"
  /\ file # lastOp.f
  /\ InFlight = {}

Pad(n, width) == padStart(toString(n), width, "0")
DurationString(ms) ==
  Pad(ms \div 3600000, 2) \o <<":">> \o Pad((ms \div 60000) % 60, 2) \o <<":">>
    \o Pad((ms \div 1000) % 60, 2) \o <<",">> \o Pad(ms % 1000, 3)
C11_FormatTimeIsDuration ==
  /\ (hFn = "formatTime" /\ hDone) => hOut = DurationString(hMs)
  /\ (hFn = "formatTime" /\ hDone /\ hMs = 0)
       => hOut = <<"0","0",":","0","0",":","0","0",",","0","0","0">>
  /\ (hFn = "formatTime" /\ hDone /\ hMs = 3661005)
       => hOut = <<"0","1",":","0","1",":","0","1",",","0","0","5">>
  /\ (hFn = "formatTime" /\ hDone /\ hMs = 59999)
       => hOut = <<"0","0",":","0","0",":","5","9",",","9","9","9">>

\* C12: generateSRT emits one block per segment in input order; the block of
\* the segment at 0-based position i is the line i+1 (whatever the segment's
\* id), the line formatTime(startMs) --> formatTime(endMs), the original
\* line and the translation line.
SrtLines == split(hOut, NL)
C12_BlockPerSegment ==
  (hFn = "generateSRT" /\ hDone) =>
    /\ Len(SrtLines) >= 5 * Len(hSegs) - 1
    /\ \A i \in 1..Len(hSegs) :
         /\ SrtLines[5 * (i - 1) + 1] = toString(i)
         /\ SrtLines[5 * (i - 1) + 2]
              = formatTime(hSegs[i].startMs)
                  \o <<" ", "-", "-", ">", " ">>
                  \o formatTime(hSegs[i].endMs)
         /\ SrtLines[5 * (i - 1) + 3] = hSegs[i].original
         /\ SrtLines[5 * (i - 1) + 4] = hSegs[i].translation
\* two segments were serialised, the second carrying an id that is not its
\* position
C12_Witness ==
  /\ hFn = "generateSRT"
  /\ hDone
  /\ Len(hSegs) = 2
  /\ hSegs[2].id = 7
  /\ SrtLines[6] = <<"2">>

\* C13: generateSRT of the empty sequence is the empty string; otherwise
\* consecutive blocks are separated by exactly one blank line and nothing
\* follows the final segment's translation line (the output ends with the
\* newline that terminates that line).
C13_SeparatorsAndEnd ==
  (hFn = "generateSRT" /\ hDone) =>
    IF Len(hSegs) = 0 THEN hOut = << >>
    ELSE /\ Len(SrtLines) = 5 * Len(hSegs)
         /\ \A i \in 1..Len(hSegs) : SrtLines[5 * i] = << >>
         /\ \A i \in 1..Len(hSegs) : SrtLines[5 * i - 4] # << >>
         /\ SrtLines[5 * Len(hSegs) - 1] = hSegs[Len(hSegs)].translation
\* two blocks were emitted with one blank line between them
C13_Witness ==
  /\ hFn = "generateSRT"
  /\ hDone
  /\ Len(hSegs) = 2
  /\ Len(SrtLines) = 10
  /\ SrtLines[5] = << >>
  /\ SrtLines[6] = <<"2">>
  /\ hSegs[1].translation # << >>

\* C17: the download is named <file name without its extension>.srt, the
\* extension being the part after the last dot, and subtitle.srt when no
\* name is available.
HasDot(name) == \E i \in 1..Len(name) : name[i] = "."
LastDot(name) == CHOOSE i \in 1..Len(name) :
                   name[i] = "." /\ \A j \in (i + 1)..Len(name) : name[j] # "."
WithoutExtension(name) ==
  IF HasDot(name) THEN SubSeq(name, 1, LastDot(name) - 1) ELSE name
C17_DownloadName ==
  (hFn = "download" /\ hDone) =>
    IF hName = NoName \/ WithoutExtension(hName) = << >>
    THEN hOut = <<"s","u","b","t","i","t","l","e",".","s","r","t">>
    ELSE hOut = WithoutExtension(hName) \o <<".", "s", "r", "t">>

====
